---- MODULE Spec2Model ----
(***************************************************************************)
(* NDI Bridge Cloud Rendezvous Service: the session registry, the live     *)
(* connection table and the WebSocket signaling relay of server.js.        *)
(*                                                                         *)
(* The server is a single event loop: every handler runs to completion, so *)
(* each handler is one atomic action.  src/server.js and the later variant *)
(* src/unnamed/part_001 share the relay code line for line; the variant    *)
(* additionally relays the type udp_endpoint, and it is the one modelled.  *)
(*                                                                         *)
(* Three groups of handlers share no state beyond the clock and are        *)
(* followed in specifications of their own: Spec and SpecFresh (sessions,  *)
(* connections and the relay, with a coarse clock), SpecTTL (one session   *)
(* under the session sweep timer and the HTTP polling endpoints) and       *)
(* SpecHosts (the host registry of the variant).  SpecQueue follows one    *)
(* host and its queue of connection requests through longer runs,          *)
(* SpecPayload the relay with the whole payload in view, SpecUdp the       *)
(* signaling connections together with the UDP endpoint discovery, and     *)
(* SpecSweep the host registry with the host sweep fired by its timer.     *)
(***************************************************************************)
EXTENDS Integers, Sequences, FiniteSets, TLC

\* ---- bounds of the model ------------------------------------------------
\* Longest session.clients array the model lets a register build.
MaxClients == 2
\* Number of createSession requests, register messages and clock advances in
\* a run.
MaxSteps == 4
\* Last clock value of the runs that follow the session sweep timer.
MaxTime == 8
\* Number of host registry calls that write (register, heartbeat, connect,
\* acknowledge, delete) in a run.
MaxCalls == 2
\* Number of times the clock advances in a run of the host registry.
MaxHostTicks == 4
\* The connection requests one host's queue holds.
MaxQueue == 2
\* The instants of one host sweep period at which a call can arrive.
ClockParts == 3

\* Codes generateCode can return (6 characters over a 32 symbol alphabet in
\* the program, two representatives here).
Codes == {"A", "B"}

\* ---- values -------------------------------------------------------------
\* Connection ids: the n-th socket gets id n.  The program draws the id from
\* Math.random(); ids are taken to be unique per socket lifetime.
ConnIds == {1, 2, 3}
\* session.host === null
Null == 0
\* connection.role / connection.sessionCode === null
NoRole == "null"
NoCode == "null"
\* Roles a register message names.
Roles == {"host", "client"}
\* Message types forwardSignal is called for.  The switch has one body for
\* offer, answer, ice-candidate, connection_info and udp_endpoint; offer
\* stands for the five.
RelayTypes == {"offer"}

\* The clock counts units of five minutes, the period of the session sweep.
\* 30 * 60 * 1000 ms
SESSION_TTL == 6
\* 5 * 60 * 1000 ms, the period of the session sweep
SWEEP_INTERVAL == 1
\* peerId values of the HTTP polling clients
PeerIds == {"p1", "p2"}

VARIABLES
    sessions,     \* Map code -> session
    connections,  \* Map connectionId -> { role, sessionCode }
    nextConn,     \* number of sockets opened so far
    registered,   \* history: connectionId -> role and code of the last
                  \* 'registered' acknowledgment the connection was sent
    steps,        \* createSession requests, register messages and clock
                  \* advances so far
    now,          \* Date.now()
    ev,           \* the event the last handler ran for
    out,          \* ws.send calls of the last handler, in order
    hosts,        \* Map hostId -> host, in insertion order
    req,          \* the host registry request the last handler served
    res           \* the HTTP response it gave

vars == <<sessions, connections, nextConn, registered, steps, now, ev, out,
          hosts, req, res>>

\* What the session and signaling handlers leave alone, and what the host
\* registry handlers leave alone.
hostVars == <<hosts, req, res>>
sessVars == <<sessions, connections, nextConn, registered, ev, out>>

\* ---- Map helpers --------------------------------------------------------
Put(m, k, v) == [x \in (DOMAIN m) \cup {k} |-> IF x = k THEN v ELSE m[x]]
Del(m, k) == [x \in (DOMAIN m) \ {k} |-> m[x]]
EmptyMap == [x \in {} |-> 0]

\* One ws.send: the receiving connection, the message type and the id the
\* message carries (fromId of a relayed message, clientId of client_joined
\* and client_left, Null otherwise).
Msg(to, type, ref) == [to |-> to, type |-> type, ref |-> ref]

\* ids.forEach(id => { const p = connections.get(id); if (p?.ws) p.ws.send(..) })
SendEach(conns, ids, type, ref) ==
    LET live == SelectSeq(ids, LAMBDA id : id \in DOMAIN conns)
    IN  [i \in 1 .. Len(live) |-> Msg(live[i], type, ref)]

Event(op, conn, type, code, role, target) ==
    [op |-> op, conn |-> conn, type |-> type, code |-> code, role |-> role,
     target |-> target]

\* ---- session registry ---------------------------------------------------
\* hostEndpoint and clientEndpoints are absent from a new session; the empty
\* sequence stands for the absent field.
NewSession(t) ==
    [host |-> Null, clients |-> <<>>, createdAt |-> t, status |-> "waiting",
     hostEndpoint |-> <<>>, clientEndpoints |-> <<>>]

\* POST /api/session/create: generateCode() is a random draw, any code can
\* come out; sessions.set(code, session) stores the new session under it.
CreateSession(code) ==
    /\ steps < MaxSteps
    /\ steps' = steps + 1
    /\ sessions' = Put(sessions, code, NewSession(now))
    /\ ev' = Event("create", Null, "http", code, NoRole, Null)
    /\ out' = <<>>
    /\ UNCHANGED <<connections, nextConn, registered, now>>
    /\ UNCHANGED hostVars

Expired(s, t) == t - s.createdAt > SESSION_TTL

\* The body of the session cleanup callback run at time t.
SweepAt(sess, t) ==
    [c \in {x \in DOMAIN sess : ~Expired(sess[x], t)} |-> sess[c]]

\* The session cleanup interval.
SessionSweep ==
    /\ sessions' = SweepAt(sessions, now)
    /\ ev' = Event("sweep", Null, "timer", NoCode, NoRole, Null)
    /\ out' = <<>>
    /\ UNCHANGED <<connections, nextConn, registered, steps, now>>
    /\ UNCHANGED hostVars

\* Time passes: more than the TTL goes by between two events.
Tick ==
    /\ steps < MaxSteps
    /\ steps' = steps + 1
    /\ now' = now + SESSION_TTL + 1
    /\ ev' = Event("tick", Null, "timer", NoCode, NoRole, Null)
    /\ out' = <<>>
    /\ UNCHANGED <<sessions, connections, nextConn, registered>>
    /\ UNCHANGED hostVars

\* ---- connections --------------------------------------------------------
\* wss.on('connection')
Connect ==
    /\ nextConn + 1 \in ConnIds
    /\ nextConn' = nextConn + 1
    /\ connections' = Put(connections, nextConn + 1,
                          [role |-> NoRole, sessionCode |-> NoCode])
    /\ registered' = Put(registered, nextConn + 1,
                         [role |-> NoRole, sessionCode |-> NoCode])
    /\ ev' = Event("connect", nextConn + 1, "ws", NoCode, NoRole, Null)
    /\ out' = <<>>
    /\ UNCHANGED <<sessions, steps, now>>
    /\ UNCHANGED hostVars

\* ---- signaling relay ----------------------------------------------------
\* handleSignal, case 'register': the two assignments made before the lookup.
SetRegistration(conns, c, code, role) ==
    [conns EXCEPT ![c] = [role |-> role, sessionCode |-> code]]

\* role === 'host': session.host = connectionId; session.status = 'active'
HostRegistered(s, c) == [s EXCEPT !.host = c, !.status = "active"]

\* role === 'client': session.clients.push(connectionId)
ClientRegistered(s, c) == [s EXCEPT !.clients = Append(@, c)]

\* The sends of a register whose session exists, before the acknowledgment.
RegisterNotices(conns, s, c, role) ==
    IF role = "host" THEN SendEach(conns, s.clients, "host_online", Null)
    ELSE IF role = "client" /\ s.host # Null
         THEN SendEach(conns, <<s.host>>, "client_joined", c)
         ELSE <<>>

\* handleSignal, case 'register'.
Register(c, code, role) ==
    /\ c \in DOMAIN connections
    /\ steps < MaxSteps
    /\ steps' = steps + 1
    /\ role = "client" /\ code \in DOMAIN sessions
           => Len(sessions[code].clients) < MaxClients
    /\ connections' = SetRegistration(connections, c, code, role)
    /\ ev' = Event("register", c, "register", code, role, Null)
    /\ IF code \notin DOMAIN sessions
       THEN /\ out' = <<Msg(c, "error", Null)>>
            /\ UNCHANGED <<sessions, registered>>
       ELSE /\ sessions' =
                 [sessions EXCEPT ![code] =
                     IF role = "host" THEN HostRegistered(@, c)
                     ELSE IF role = "client" THEN ClientRegistered(@, c)
                     ELSE @]
            /\ out' = RegisterNotices(connections', sessions[code], c, role)
                          \o <<Msg(c, "registered", Null)>>
            /\ registered' = [registered EXCEPT
                                 ![c] = [role |-> role, sessionCode |-> code]]
    /\ UNCHANGED <<nextConn, now>>
    /\ UNCHANGED hostVars

\* forwardSignal(fromId, data): the connections data is sent to, in order.
ForwardTo(conns, sess, fromId, targetId) ==
    IF fromId \notin DOMAIN conns THEN <<>>
    ELSE IF conns[fromId].sessionCode \notin DOMAIN sess THEN <<>>
    ELSE IF targetId # Null
         THEN SelectSeq(<<targetId>>, LAMBDA id : id \in DOMAIN conns)
         ELSE LET session == sess[conns[fromId].sessionCode]
                  peerId == IF conns[fromId].role = "host"
                            THEN session.clients
                            ELSE <<session.host>>
              IN  SelectSeq(peerId,
                            LAMBDA id : id \in DOMAIN conns /\ id # fromId)

\* The message each of them gets: { ...data, fromId }.
ForwardOut(conns, sess, fromId, type, targetId) ==
    LET to == ForwardTo(conns, sess, fromId, targetId)
    IN  [i \in 1 .. Len(to) |-> Msg(to[i], type, fromId)]

\* handleSignal, cases 'offer', 'answer', 'ice-candidate', 'connection_info'
\* and 'udp_endpoint'.  targetId can name any id, live or not.
Relay(c, type, targetId) ==
    /\ c \in DOMAIN connections
    /\ ev' = Event("relay", c, type, NoCode, NoRole, targetId)
    /\ out' = ForwardOut(connections, sessions, c, type, targetId)
    /\ UNCHANGED <<sessions, connections, nextConn, registered, steps, now>>
    /\ UNCHANGED hostVars

\* An error answer that goes to every live connection rather than the sender.
MalformedReply_ToAll(conns, c) ==
    [i \in 1 .. Cardinality(DOMAIN conns) |->
        Msg(CHOOSE d \in DOMAIN conns :
                Cardinality({e \in DOMAIN conns : e < d}) = i - 1,
            "error", Null)]

\* ws.on('message'), catch branch: ws.send({ type: 'error', ... }) on the
\* socket the message came in on.
MalformedReply(conns, c) == <<Msg(c, "error", Null)>>

\* ws.on('message') for a message JSON.parse throws on: handleSignal is not
\* called.
Malformed(c) ==
    /\ c \in DOMAIN connections
    /\ ev' = Event("malformed", c, "text", NoCode, NoRole, Null)
    /\ out' = MalformedReply(connections, c)
    /\ UNCHANGED <<sessions, connections, nextConn, registered, steps, now>>
    /\ UNCHANGED hostVars

\* A disconnect that clears the host reference and forgets the status.
HostGone_KeepsStatus(s) == [s EXCEPT !.host = Null]

\* handleDisconnect, role === 'host': session.host = null, status 'waiting'.
HostGone(s) == [s EXCEPT !.host = Null, !.status = "waiting"]

\* handleDisconnect, role === 'client': clients.filter(id => id !== connectionId)
ClientGone(s, c) == [s EXCEPT !.clients = SelectSeq(@, LAMBDA id : id # c)]

\* The session handleDisconnect works on: connection?.sessionCode is set and
\* names a session of the registry.
HasSession(conns, sess, c) ==
    /\ conns[c].sessionCode # NoCode
    /\ conns[c].sessionCode \in DOMAIN sess

\* handleDisconnect(connectionId): the closing connection is still in the
\* table while the notices are sent and is deleted last.
Disconnect(c) ==
    /\ c \in DOMAIN connections
    /\ ev' = Event("disconnect", c, "close", connections[c].sessionCode,
                   connections[c].role, Null)
    /\ IF HasSession(connections, sessions, c)
       THEN LET code == connections[c].sessionCode
                session == sessions[code]
            IN  IF connections[c].role = "host"
                THEN /\ sessions' = [sessions EXCEPT ![code] = HostGone(@)]
                     /\ out' = SendEach(connections, session.clients,
                                        "host_offline", Null)
                ELSE IF connections[c].role = "client"
                THEN /\ sessions' = [sessions EXCEPT ![code] = ClientGone(@, c)]
                     /\ out' = IF session.host # Null
                               THEN SendEach(connections, <<session.host>>,
                                             "client_left", c)
                               ELSE <<>>
                ELSE /\ out' = <<>>
                     /\ UNCHANGED sessions
       ELSE /\ out' = <<>>
            /\ UNCHANGED sessions
    /\ connections' = Del(connections, c)
    /\ registered' = Del(registered, c)
    /\ UNCHANGED <<nextConn, steps, now>>
    /\ UNCHANGED hostVars

\* ---- host registry -------------------------------------------------------
\* The host registry keeps its own time scale: milliseconds, advanced one
\* host sweep period at a time.
HOST_TIMEOUT_MS == 45000
\* The period of the host cleanup interval.
HOST_SWEEP_MS == 15000
\* publicPort || 5961
DEFAULT_PORT == 5961

\* A missing (undefined) string field, a missing port, a missing array.
NoVal == "undefined"
NoPort == 0
Absent == <<>>
Some(x) == <<x>>

\* generateHostId(), two representatives of the 16 character ids.
HostIds == {"h1", "h2"}
\* clientId of a connection request; generateCode() when the caller has none.
ClientIds == {"c1", "c2"}
SrcNames == {"cam", "mic"}
\* sources arrays a host sends: one shared, one not shared, a shared one
\* after one that is not.
SourceLists ==
    { <<[name |-> "cam", enabled |-> TRUE]>>,
      <<[name |-> "cam", enabled |-> FALSE]>>,
      <<[name |-> "cam", enabled |-> FALSE], [name |-> "mic", enabled |-> TRUE]>> }
\* The endpoint a caller states in the body (nothing, or address and port)
\* and the address getClientIP(req) sees.
Endpoints == {[ip |-> NoVal, port |-> NoPort], [ip |-> "ipA", port |-> 6000]}
RemoteIPs == {"ipR"}

NoReq ==
    [op |-> "none", hostId |-> NoVal, computerName |-> NoVal,
     sources |-> Absent, publicIP |-> NoVal, publicPort |-> NoPort,
     remote |-> NoVal, clientId |-> NoVal, sourceName |-> NoVal]
NoRes == [status |-> 0]

\* Map operations on the insertion-ordered hosts map.
HostIndex(hs, id) ==
    IF \E i \in 1 .. Len(hs) : hs[i].hostId = id
    THEN CHOOSE i \in 1 .. Len(hs) : hs[i].hostId = id
    ELSE 0
HostsHas(hs, id) == HostIndex(hs, id) # 0
HostsGet(hs, id) == hs[HostIndex(hs, id)]
HostsSet(hs, id, h) ==
    IF HostsHas(hs, id) THEN [hs EXCEPT ![HostIndex(hs, id)] = h]
    ELSE Append(hs, h)
HostsDelete(hs, id) == SelectSeq(hs, LAMBDA h : h.hostId # id)

\* sources.filter(s => s.enabled) and .map(s => s.name)
EnabledSources(sources) == SelectSeq(sources, LAMBDA src : src.enabled)
SourceNamesOf(sources) == [i \in 1 .. Len(sources) |-> sources[i].name]

\* A registration that stamps registeredAt anew every time.
RegisteredHost_NewStamp(hs, id, computerName, sources, detectedIP, publicPort, t) ==
    [hostId |-> id,
     computerName |-> computerName,
     sources |-> sources,
     publicIP |-> detectedIP,
     publicPort |-> IF publicPort # NoPort THEN publicPort ELSE DEFAULT_PORT,
     registeredAt |-> t,
     lastHeartbeat |-> t,
     connectedClients |-> <<>>]

\* The host object POST /api/hosts/register stores.
RegisteredHost(hs, id, computerName, sources, detectedIP, publicPort, t) ==
    [hostId |-> id,
     computerName |-> computerName,
     sources |-> sources,
     publicIP |-> detectedIP,
     publicPort |-> IF publicPort # NoPort THEN publicPort ELSE DEFAULT_PORT,
     registeredAt |-> IF HostsHas(hs, id) THEN HostsGet(hs, id).registeredAt
                      ELSE t,
     lastHeartbeat |-> t,
     connectedClients |-> <<>>]

\* The calls that write to the registry leave the budget of the run to the
\* specification that takes them: counted against MaxCalls, or not counted.
Counted ==
    /\ steps < MaxCalls
    /\ steps' = steps + 1

\* POST /api/hosts/register
RegisterHost(hostId, computerName, sources, publicIP, publicPort, remote) ==
    /\ req' = [NoReq EXCEPT !.op = "register", !.hostId = hostId,
                            !.computerName = computerName,
                            !.sources = sources, !.publicIP = publicIP,
                            !.publicPort = publicPort, !.remote = remote]
    /\ IF computerName = NoVal \/ sources = Absent
       THEN /\ res' = [status |-> 400]
            /\ UNCHANGED hosts
       ELSE \E id \in (IF hostId # NoVal THEN {hostId} ELSE HostIds) :
                LET detectedIP == IF publicIP # NoVal THEN publicIP ELSE remote
                IN  /\ hosts' = HostsSet(hosts, id,
                                     RegisteredHost(hosts, id, computerName,
                                                    sources[1], detectedIP,
                                                    publicPort, now))
                    /\ res' = [status |-> 200, hostId |-> id,
                               publicIP |-> detectedIP]
    /\ UNCHANGED now
    /\ UNCHANGED sessVars

\* A heartbeat that reports every queued request, acknowledged or not.
PendingClients_All(cs) ==
    [i \in 1 .. Len(cs) |->
        [clientId |-> cs[i].clientId,
         requestedSource |-> cs[i].requestedSource]]

\* host.connectedClients.filter(c => !c.acknowledged), mapped to the fields
\* the heartbeat response carries.
PendingClients(cs) ==
    LET pending == SelectSeq(cs, LAMBDA c : ~c.acknowledged)
    IN  [i \in 1 .. Len(pending) |->
            [clientId |-> pending[i].clientId,
             requestedSource |-> pending[i].requestedSource]]

\* A heartbeat that stores the port of the body even when there is none.
Refreshed_PortAlways(h, detectedIP, publicPort, sources, t) ==
    [h EXCEPT !.lastHeartbeat = t,
              !.publicIP = IF detectedIP # NoVal THEN detectedIP ELSE @,
              !.publicPort = publicPort,
              !.sources = IF sources # Absent THEN sources[1] ELSE @]

\* The updates a heartbeat makes to the host.
Refreshed(h, detectedIP, publicPort, sources, t) ==
    [h EXCEPT !.lastHeartbeat = t,
              !.publicIP = IF detectedIP # NoVal THEN detectedIP ELSE @,
              !.publicPort = IF publicPort # NoPort THEN publicPort ELSE @,
              !.sources = IF sources # Absent THEN sources[1] ELSE @]

\* POST /api/hosts/heartbeat/:hostId
Heartbeat(hostId, publicIP, publicPort, sources, remote) ==
    /\ req' = [NoReq EXCEPT !.op = "heartbeat", !.hostId = hostId,
                            !.sources = sources, !.publicIP = publicIP,
                            !.publicPort = publicPort, !.remote = remote]
    /\ IF ~HostsHas(hosts, hostId)
       THEN /\ res' = [status |-> 404, message |-> "Host not found"]
            /\ UNCHANGED hosts
       ELSE LET host == HostsGet(hosts, hostId)
                detectedIP == IF publicIP # NoVal THEN publicIP ELSE remote
            IN  /\ hosts' = HostsSet(hosts, hostId,
                                     Refreshed(host, detectedIP, publicPort,
                                               sources, now))
                /\ res' = [status |-> 200,
                           pendingClients |->
                               PendingClients(host.connectedClients)]
    /\ UNCHANGED now
    /\ UNCHANGED sessVars

\* DELETE /api/hosts/:hostId
DeleteHost(hostId) ==
    /\ req' = [NoReq EXCEPT !.op = "delete", !.hostId = hostId]
    /\ hosts' = HostsDelete(hosts, hostId)
    /\ res' = [status |-> 200]
    /\ UNCHANGED now
    /\ UNCHANGED sessVars

\* A listing that skips the heartbeat test.
Available_NoTimeout(h, t) == Len(EnabledSources(h.sources)) > 0

\* GET /api/hosts: the test a host passes to be listed.
Available(h, t) ==
    /\ t - h.lastHeartbeat < HOST_TIMEOUT_MS
    /\ Len(EnabledSources(h.sources)) > 0

\* A listing that reports every source name, shared or not.
ListedSources_All(h) == SourceNamesOf(h.sources)

\* GET /api/hosts: sources of a listed host.
ListedSources(h) == SourceNamesOf(EnabledSources(h.sources))

\* GET /api/hosts: availableHosts, in the iteration order of the map.
AvailableHosts(hs, t) ==
    LET live == SelectSeq(hs, LAMBDA h : Available(h, t))
    IN  [i \in 1 .. Len(live) |->
            [hostId |-> live[i].hostId,
             computerName |-> live[i].computerName,
             sources |-> ListedSources(live[i]),
             lastSeen |-> live[i].lastHeartbeat]]

ListHosts ==
    /\ req' = [NoReq EXCEPT !.op = "list"]
    /\ res' = [status |-> 200, hosts |-> AvailableHosts(hosts, now)]
    /\ UNCHANGED <<hosts, steps, now>>
    /\ UNCHANGED sessVars

\* A connect that does not look at the enabled flag.
SourceShared_AnyFlag(h, sourceName) ==
    \E i \in 1 .. Len(h.sources) : h.sources[i].name = sourceName

\* host.sources.find(s => s.name === sourceName && s.enabled)
SourceShared(h, sourceName) ==
    \E i \in 1 .. Len(h.sources) :
        h.sources[i].name = sourceName /\ h.sources[i].enabled

\* The connection request a connect queues; clientName, the client's
\* endpoint and requestedAt are stored and never read, and are left out.
ConnectionRequest(clientId, sourceName) ==
    [clientId |-> clientId, requestedSource |-> sourceName,
     acknowledged |-> FALSE]

\* A queue that holds one request for each client: a new request takes the
\* place of the client's earlier one.
Queued_OnePerClient(cs, r) ==
    Append(SelectSeq(cs, LAMBDA c : c.clientId # r.clientId), r)

\* host.connectedClients.push(connectionRequest)
Queued(cs, r) == Append(cs, r)

\* POST /api/hosts/:hostId/connect
RequestConnect(hostId, clientId, sourceName) ==
    /\ req' = [NoReq EXCEPT !.op = "connect", !.hostId = hostId,
                            !.clientId = clientId, !.sourceName = sourceName]
    /\ IF ~HostsHas(hosts, hostId)
       THEN /\ res' = [status |-> 404, message |-> "Host not found"]
            /\ UNCHANGED hosts
       ELSE IF ~SourceShared(HostsGet(hosts, hostId), sourceName)
       THEN /\ res' = [status |-> 404, message |-> "Source not found"]
            /\ UNCHANGED hosts
       ELSE \E id \in (IF clientId # NoVal THEN {clientId} ELSE ClientIds) :
                /\ hosts' = HostsSet(hosts, hostId,
                       [HostsGet(hosts, hostId) EXCEPT
                           !.connectedClients =
                               Queued(@, ConnectionRequest(id, sourceName))])
                /\ res' = [status |-> 200, clientId |-> id]
    /\ UNCHANGED now
    /\ UNCHANGED sessVars

\* connectedClients.find(c => c.clientId === clientId), 0 for undefined
ClientIndex(cs, clientId) ==
    IF \E i \in 1 .. Len(cs) : cs[i].clientId = clientId
    THEN CHOOSE i \in 1 .. Len(cs) :
             /\ cs[i].clientId = clientId
             /\ \A j \in 1 .. i - 1 : cs[j].clientId # clientId
    ELSE 0

\* GET /api/hosts/:hostId/status/:clientId
PollStatus(hostId, clientId) ==
    /\ req' = [NoReq EXCEPT !.op = "status", !.hostId = hostId,
                            !.clientId = clientId]
    /\ res' =
           IF ~HostsHas(hosts, hostId)
           THEN [status |-> 404, message |-> "Host not found"]
           ELSE LET host == HostsGet(hosts, hostId)
                    i == ClientIndex(host.connectedClients, clientId)
                IN  IF i = 0
                    THEN [status |-> 404,
                          message |-> "Connection request not found"]
                    ELSE [status |-> 200,
                          hostOnline |->
                              now - host.lastHeartbeat < HOST_TIMEOUT_MS,
                          acknowledged |->
                              host.connectedClients[i].acknowledged]
    /\ UNCHANGED <<hosts, steps, now>>
    /\ UNCHANGED sessVars

\* An acknowledge that, like the status poll, refuses a pair with no request.
AckResponse_NeedsRequest(hs, hostId, clientId) ==
    IF ~HostsHas(hs, hostId)
    THEN [status |-> 404, message |-> "Host not found"]
    ELSE IF ClientIndex(HostsGet(hs, hostId).connectedClients, clientId) = 0
    THEN [status |-> 404, message |-> "Connection request not found"]
    ELSE [status |-> 200]

\* POST /api/hosts/:hostId/acknowledge/:clientId: the response.
AckResponse(hs, hostId, clientId) ==
    IF ~HostsHas(hs, hostId)
    THEN [status |-> 404, message |-> "Host not found"]
    ELSE [status |-> 200]

\* POST /api/hosts/:hostId/acknowledge/:clientId
Acknowledge(hostId, clientId) ==
    /\ req' = [NoReq EXCEPT !.op = "acknowledge", !.hostId = hostId,
                            !.clientId = clientId]
    /\ res' = AckResponse(hosts, hostId, clientId)
    /\ IF ~HostsHas(hosts, hostId)
       THEN UNCHANGED hosts
       ELSE LET host == HostsGet(hosts, hostId)
                i == ClientIndex(host.connectedClients, clientId)
            IN  hosts' = IF i = 0 THEN hosts
                         ELSE HostsSet(hosts, hostId,
                                  [host EXCEPT
                                      !.connectedClients[i].acknowledged
                                          = TRUE])
    /\ UNCHANGED now
    /\ UNCHANGED sessVars

\* A sweep that measures the age of a host from its registration.
HostExpired_SinceRegistered(h, t) == t - h.registeredAt > HOST_TIMEOUT_MS

\* now - host.lastHeartbeat > HOST_TIMEOUT_MS
HostExpired(h, t) == t - h.lastHeartbeat > HOST_TIMEOUT_MS

\* The host cleanup interval.
HostSweep ==
    /\ hosts' = SelectSeq(hosts, LAMBDA h : ~HostExpired(h, now))
    /\ req' = [NoReq EXCEPT !.op = "sweep"]
    /\ res' = NoRes
    /\ UNCHANGED <<steps, now>>
    /\ UNCHANGED sessVars

\* Time passes: one host sweep period.
HostTick ==
    /\ now < MaxHostTicks * HOST_SWEEP_MS
    /\ now' = now + HOST_SWEEP_MS
    /\ req' = [NoReq EXCEPT !.op = "tick"]
    /\ res' = NoRes
    /\ UNCHANGED <<hosts, steps>>
    /\ UNCHANGED sessVars

Init ==
    /\ sessions = EmptyMap
    /\ connections = EmptyMap
    /\ registered = EmptyMap
    /\ nextConn = 0
    /\ steps = 0
    /\ now = 0
    /\ ev = Event("init", Null, "none", NoCode, NoRole, Null)
    /\ out = <<>>
    /\ hosts = <<>>
    /\ req = NoReq
    /\ res = NoRes

Next ==
    \/ \E code \in Codes : CreateSession(code)
    \/ SessionSweep
    \/ Tick
    \/ Connect
    \/ \E c \in ConnIds, code \in Codes, role \in Roles : Register(c, code, role)
    \/ \E c \in ConnIds, type \in RelayTypes, t \in ConnIds \cup {Null} :
           Relay(c, type, t)
    \/ \E c \in ConnIds : Malformed(c)
    \/ \E c \in ConnIds : Disconnect(c)

Spec == Init /\ [][Next]_vars

\* The runs in which generateCode never draws a code that is in use: what
\* happens in them does not rest on a collision of two random codes.
CreateFresh(code) ==
    /\ code \notin DOMAIN sessions
    /\ CreateSession(code)

NextFresh ==
    \/ \E code \in Codes : CreateFresh(code)
    \/ SessionSweep
    \/ Tick
    \/ Connect
    \/ \E c \in ConnIds, code \in Codes, role \in Roles : Register(c, code, role)
    \/ \E c \in ConnIds, type \in RelayTypes, t \in ConnIds \cup {Null} :
           Relay(c, type, t)
    \/ \E c \in ConnIds : Malformed(c)
    \/ \E c \in ConnIds : Disconnect(c)

SpecFresh == Init /\ [][NextFresh]_vars
\* ---- session lifetime --------------------------------------------------
\* POST /api/session/join: a lookup, the registry is only read.
Join(code) ==
    /\ ev' = Event("join", Null, "http", code, NoRole, Null)
    /\ out' = <<>>
    /\ UNCHANGED <<sessions, connections, nextConn, registered, steps, now>>
    /\ UNCHANGED hostVars

\* An endpoint update that also renews the session's creation time.
HostEndpointSet_Renews(s, t) ==
    [s EXCEPT !.hostEndpoint = <<[updatedAt |-> t]>>, !.createdAt = t]

\* session.hostEndpoint = { publicIP, publicPort, peerId, updatedAt }
HostEndpointSet(s, t) == [s EXCEPT !.hostEndpoint = <<[updatedAt |-> t]>>]

\* POST /api/host/endpoint/:code
HostEndpoint(code) ==
    /\ steps < MaxSteps
    /\ steps' = steps + 1
    /\ sessions' = IF code \in DOMAIN sessions
                   THEN [sessions EXCEPT ![code] = HostEndpointSet(@, now)]
                   ELSE sessions
    /\ ev' = Event("endpoint", Null, "http", code, "host", Null)
    /\ out' = <<>>
    /\ UNCHANGED <<connections, nextConn, registered, now>>
    /\ UNCHANGED hostVars

\* clientEndpoints.findIndex(c => c.peerId === peerId), 0 for -1
FindPeer(eps, peerId) ==
    IF \E i \in 1 .. Len(eps) : eps[i].peerId = peerId
    THEN CHOOSE i \in 1 .. Len(eps) :
             /\ eps[i].peerId = peerId
             /\ \A j \in 1 .. i - 1 : eps[j].peerId # peerId
    ELSE 0

\* Store or update the client endpoint.
ClientEndpointSet(s, peerId, t) ==
    LET endpoint == [peerId |-> peerId, updatedAt |-> t]
        existingIndex == FindPeer(s.clientEndpoints, peerId)
    IN  IF existingIndex > 0
        THEN [s EXCEPT !.clientEndpoints[existingIndex] = endpoint]
        ELSE [s EXCEPT !.clientEndpoints = Append(@, endpoint)]

\* POST /api/client/endpoint/:code
ClientEndpoint(code, peerId) ==
    /\ steps < MaxSteps
    /\ steps' = steps + 1
    /\ sessions' = IF code \in DOMAIN sessions
                   THEN [sessions EXCEPT
                            ![code] = ClientEndpointSet(@, peerId, now)]
                   ELSE sessions
    /\ ev' = Event("endpoint", Null, "http", code, "client", Null)
    /\ out' = <<>>
    /\ UNCHANGED <<connections, nextConn, registered, now>>
    /\ UNCHANGED hostVars

\* setInterval(..., 5 * 60 * 1000): the clock reaches the next multiple of
\* the period and the cleanup callback runs.  The clock counts whole periods,
\* so an event between two callbacks carries the time of the earlier one;
\* the strict comparison of the callback decides the same either way.
SessionSweepTimer ==
    /\ now + SWEEP_INTERVAL <= MaxTime
    /\ now' = now + SWEEP_INTERVAL
    /\ sessions' = SweepAt(sessions, now')
    /\ ev' = Event("sweep", Null, "timer", NoCode, NoRole, Null)
    /\ out' = <<>>
    /\ UNCHANGED <<connections, nextConn, registered, steps>>
    /\ UNCHANGED hostVars

\* The first socket only.
ConnectFirst == nextConn = 0 /\ Connect

\* The code the session whose lifetime is followed is created under.
TTLCodes == {"A"}

NextTTL ==
    \/ \E code \in TTLCodes : CreateSession(code)
    \/ SessionSweepTimer
    \/ ConnectFirst
    \/ \E c \in ConnIds, code \in Codes, role \in Roles : Register(c, code, role)
    \/ \E c \in ConnIds, type \in RelayTypes : Relay(c, type, Null)
    \/ \E c \in ConnIds : Disconnect(c)
    \/ \E code \in TTLCodes : Join(code)
    \/ \E code \in TTLCodes : HostEndpoint(code)
    \/ \E code \in TTLCodes, peerId \in PeerIds : ClientEndpoint(code, peerId)

SpecTTL == Init /\ [][NextTTL]_vars

\* ---- the host registry on its own ----------------------------------------
NextHosts ==
    \/ \E hostId \in HostIds \cup {NoVal}, computerName \in {NoVal, "pc"},
          sources \in {Absent} \cup {Some(l) : l \in SourceLists},
          ep \in Endpoints, remote \in RemoteIPs :
           /\ computerName = NoVal \/ sources = Absent \/ hostId = NoVal
                  => ep.ip = NoVal
           /\ Counted
           /\ RegisterHost(hostId, computerName, sources, ep.ip, ep.port,
                           remote)
    \/ \E hostId \in HostIds,
          sources \in {Absent} \cup {Some(l) : l \in SourceLists},
          ep \in Endpoints, remote \in RemoteIPs :
           /\ ep.ip = NoVal
           /\ Counted
           /\ Heartbeat(hostId, ep.ip, ep.port, sources, remote)
    \/ \E hostId \in HostIds : Counted /\ DeleteHost(hostId)
    \/ ListHosts
    \/ \E hostId \in HostIds, clientId \in ClientIds \cup {NoVal},
          sourceName \in SrcNames :
           Counted /\ RequestConnect(hostId, clientId, sourceName)
    \/ \E hostId \in HostIds, clientId \in ClientIds :
           PollStatus(hostId, clientId)
    \/ \E hostId \in HostIds, clientId \in ClientIds :
           Counted /\ Acknowledge(hostId, clientId)
    \/ HostSweep
    \/ HostTick

SpecHosts == Init /\ [][NextHosts]_vars

\* ---- one host and its queue of connection requests -----------------------
\* The clock advances once; the calls are not counted, the queue is bounded.
Uncounted == UNCHANGED steps

QueueHostIds == {"h1"}
QueueSources == <<[name |-> "cam", enabled |-> TRUE]>>
\* sources a heartbeat may carry: a list that differs from the registered one
HeartbeatSources ==
    <<[name |-> "cam", enabled |-> FALSE], [name |-> "mic", enabled |-> TRUE]>>
\* publicIP and publicPort of a heartbeat body, each stated or omitted, and
\* what getClientIP(req) finds: an address or nothing.
StatedIPs == {NoVal, "ipA"}
StatedPorts == {NoPort, 6000}
DetectedIPs == RemoteIPs \cup {NoVal}

QueueRoom(hostId) ==
    HostsHas(hosts, hostId)
        => Len(HostsGet(hosts, hostId).connectedClients) < MaxQueue

NextQueue ==
    \/ \E hostId \in QueueHostIds, ep \in Endpoints, remote \in RemoteIPs :
           /\ Uncounted
           /\ RegisterHost(hostId, "pc", Some(QueueSources), ep.ip, ep.port,
                           remote)
    \/ \E hostId \in HostIds, sources \in {Absent, Some(HeartbeatSources)},
          publicIP \in StatedIPs, publicPort \in StatedPorts,
          remote \in DetectedIPs :
           /\ Uncounted
           /\ Heartbeat(hostId, publicIP, publicPort, sources, remote)
    \/ \E hostId \in QueueHostIds : Uncounted /\ DeleteHost(hostId)
    \/ \E hostId \in HostIds, clientId \in ClientIds, sourceName \in SrcNames :
           /\ QueueRoom(hostId)
           /\ Uncounted
           /\ RequestConnect(hostId, clientId, sourceName)
    \/ \E hostId \in HostIds, clientId \in ClientIds :
           PollStatus(hostId, clientId)
    \/ \E hostId \in HostIds, clientId \in ClientIds :
           Uncounted /\ Acknowledge(hostId, clientId)
    \/ now = 0 /\ HostTick

SpecQueue == Init /\ [][NextQueue]_vars

\* ---- endpoint discovery over UDP ----------------------------------------
\* rinfo of a datagram: the address and port it is seen to come from.
UdpSenders == {[address |-> "ipA", port |-> 6000],
               [address |-> "ipR", port |-> 40000]}
\* data.peerId: the sender names itself by the id of its own connection, or
\* (Null) by a name that is the id of no connection.
StunPeerIds(c) == {c, Null}
\* data.sessionCode: a code, or none.
StunCodes == {"A", NoCode}

\* udpInfo as sent to one connection.
UdpInfo(to, peerId, rinfo) ==
    [to |-> to, type |-> "peer_udp_info", ref |-> peerId,
     publicIP |-> rinfo.address, publicPort |-> rinfo.port]

\* [session.host, ...session.clients].filter(Boolean)
AllPeers(s) == SelectSeq(<<s.host>> \o s.clients, LAMBDA id : id # Null)

\* allPeers.forEach(peerId => { if (peer?.ws && peerId !== data.peerId) send })
StunBroadcast(conns, s, peerId, rinfo) ==
    LET to == SelectSeq(AllPeers(s),
                        LAMBDA id : id \in DOMAIN conns /\ id # peerId)
    IN  [i \in 1 .. Len(to) |-> UdpInfo(to[i], peerId, rinfo)]

\* udpServer.on('message') for a stun_request. c is the signaling connection
\* of the peer that sent the datagram; the handler does not see it.
Stun(c, sessionCode, peerId, rinfo) ==
    /\ c \in DOMAIN connections
    /\ ev' = Event("stun", c, "stun_request", sessionCode, NoRole, peerId)
    /\ req' = [NoReq EXCEPT !.op = "stun", !.publicIP = rinfo.address,
                            !.publicPort = rinfo.port]
    /\ res' = [type |-> "stun_response", publicIP |-> rinfo.address,
               publicPort |-> rinfo.port, sessionCode |-> sessionCode,
               toAddress |-> rinfo.address, toPort |-> rinfo.port]
    /\ out' = IF sessionCode # NoCode /\ sessionCode \in DOMAIN sessions
              THEN StunBroadcast(connections, sessions[sessionCode], peerId,
                                 rinfo)
              ELSE <<>>
    /\ UNCHANGED <<sessions, connections, nextConn, registered, steps, now,
                   hosts>>

NextUdp ==
    \/ \E code \in Codes : CreateFresh(code)
    \/ Connect
    \/ \E c \in ConnIds, code \in Codes, role \in Roles : Register(c, code, role)
    \/ \E c \in ConnIds : Disconnect(c)
    \/ \E c \in ConnIds, sessionCode \in StunCodes, rinfo \in UdpSenders :
       \E peerId \in StunPeerIds(c) :
           Stun(c, sessionCode, peerId, rinfo)

SpecUdp == Init /\ [][NextUdp]_vars

\* ---- the relay with the whole payload in view ----------------------------
\* data of a relayed message: its type and targetId, the fromId the sender
\* wrote into it (Null when it wrote none) and the rest of the payload.
Bodies == {"sdp"}
Payloads ==
    [type : RelayTypes, targetId : ConnIds \cup {Null},
     fromId : ConnIds \cup {Null}, body : Bodies]

\* { fromId, ...data }: a fromId of the payload wins over the sender's id.
Stamped_PayloadWins(data, fromId) ==
    IF data.fromId # Null THEN data ELSE [data EXCEPT !.fromId = fromId]

\* { ...data, fromId }: the fields of data, then fromId over them.
Stamped(data, fromId) == [data EXCEPT !.fromId = fromId]

\* forwardSignal(fromId, data): what is sent, to whom.
ForwardData(conns, sess, fromId, data) ==
    LET to == ForwardTo(conns, sess, fromId, data.targetId)
    IN  [i \in 1 .. Len(to) |->
            [to |-> to[i], type |-> data.type, ref |-> Stamped(data, fromId).fromId,
             data |-> Stamped(data, fromId)]]

\* handleSignal, the relayed cases, for a payload that may state a fromId.
RelayData(c, data) ==
    /\ c \in DOMAIN connections
    /\ ev' = [op |-> "payload", conn |-> c, type |-> data.type,
              code |-> NoCode, role |-> NoRole, target |-> data.targetId,
              data |-> data]
    /\ out' = ForwardData(connections, sessions, c, data)
    /\ UNCHANGED <<sessions, connections, nextConn, registered, steps, now>>
    /\ UNCHANGED hostVars

NextPayload ==
    \/ \E code \in TTLCodes : CreateSession(code)
    \/ Connect
    \/ \E c \in ConnIds, code \in TTLCodes, role \in Roles :
           Register(c, code, role)
    \/ \E c \in ConnIds : Disconnect(c)
    \/ \E c \in ConnIds, data \in Payloads : RelayData(c, data)

SpecPayload == Init /\ [][NextPayload]_vars

\* ---- the host registry under its sweep timer -----------------------------
\* The clock moves in parts of the sweep period; the timer fires, and the
\* sweep runs, whenever a whole period has passed since the server started.
ClockStep == HOST_SWEEP_MS \div ClockParts

\* A timer that fires a single time, one period after the start.
SweepDue_Once(t) == t = HOST_SWEEP_MS

\* setInterval(..., 15000)
SweepDue(t) == t % HOST_SWEEP_MS = 0

\* Time passes; the host cleanup runs when it is due, before any call that
\* arrives at that instant.  res records the hosts the cleanup logs as
\* removed.
HostSweepTimer ==
    /\ now < MaxHostTicks * HOST_SWEEP_MS
    /\ now' = now + ClockStep
    /\ req' = [NoReq EXCEPT !.op = "timer"]
    /\ IF SweepDue(now')
       THEN /\ hosts' = SelectSeq(hosts, LAMBDA h : ~HostExpired(h, now'))
            /\ res' = [status |-> 0,
                       removed |-> SelectSeq(hosts,
                                       LAMBDA h : HostExpired(h, now'))]
       ELSE /\ hosts' = hosts
            /\ res' = [status |-> 0, removed |-> <<>>]
    /\ UNCHANGED steps
    /\ UNCHANGED sessVars

NextSweep ==
    \/ \E hostId \in HostIds, remote \in RemoteIPs :
           /\ Counted
           /\ RegisterHost(hostId, "pc", Some(QueueSources), NoVal, NoPort,
                           remote)
    \/ \E hostId \in HostIds, remote \in RemoteIPs :
           /\ Counted
           /\ Heartbeat(hostId, NoVal, NoPort, Absent, remote)
    \/ \E hostId \in HostIds, clientId \in ClientIds, sourceName \in SrcNames :
           Counted /\ RequestConnect(hostId, clientId, sourceName)
    \/ \E hostId \in HostIds, clientId \in ClientIds :
           PollStatus(hostId, clientId)
    \/ HostSweepTimer

SpecSweep == Init /\ [][NextSweep]_vars

\* ---- vocabulary of the properties ---------------------------------------
Unregistered == [role |-> NoRole, sessionCode |-> NoCode]

\* c is live and its last acknowledged register named this role and code.
RegisteredAs(c, role, code) ==
    /\ c \in DOMAIN connections
    /\ registered[c] = [role |-> role, sessionCode |-> code]

LiveHostsOf(code) == {c \in ConnIds : RegisteredAs(c, "host", code)}
LiveClientsOf(code) == {c \in ConnIds : RegisteredAs(c, "client", code)}

\* Number of sends of the last handler that went to connection d.
Copies(d) == Cardinality({i \in 1 .. Len(out) : out[i].to = d})

\* A session is active exactly when some live connection is currently
\* registered as its host.
ActiveIffLiveHost ==
    \A code \in DOMAIN sessions :
        sessions[code].status = "active" <=> LiveHostsOf(code) # {}

\* C1: in every reachable state a session is active exactly when some live
\* connection is currently registered as its host; in particular no register
\* and no disconnect event takes a state where this holds to one where it
\* does not.
C1_ActiveIffLiveHost ==
    [][(ev'.op \in {"register", "disconnect"} /\ ActiveIffLiveHost)
           => ActiveIffLiveHost']_vars

\* C2: createSession never returns the code of a session that is in the
\* registry; it leaves every existing session as it was and adds exactly one.
C2_CreateNeverCollides ==
    [][ev'.op = "create" =>
          /\ ev'.code \notin DOMAIN sessions
          /\ \A k \in DOMAIN sessions :
                 k \in DOMAIN sessions' /\ sessions'[k] = sessions[k]
          /\ Cardinality(DOMAIN sessions') = Cardinality(DOMAIN sessions) + 1
      ]_vars

\* C3: a session never has two live connections registered as its host.
C3_AtMostOneLiveHost ==
    \A code \in DOMAIN sessions : Cardinality(LiveHostsOf(code)) <= 1

\* C4: a session's client list never holds the same connection id twice.
C4_ClientsNoDuplicates ==
    \A code \in DOMAIN sessions :
        \A i, j \in 1 .. Len(sessions[code].clients) :
            i # j => sessions[code].clients[i] # sessions[code].clients[j]

\* C5: for every session of the registry, status is active exactly when the
\* host reference is non-null and waiting exactly when it is null.
C5_StatusMatchesHostRef ==
    \A code \in DOMAIN sessions :
        /\ sessions[code].status \in {"waiting", "active"}
        /\ sessions[code].status = "active" <=> sessions[code].host # Null
        /\ sessions[code].status = "waiting" <=> sessions[code].host = Null

\* C5 witness: a second host has registered for a session with a client, the
\* first host has then disconnected, and the session is back to waiting with
\* no host reference.
C5_Witness ==
    /\ ev.op = "disconnect" /\ ev.role = "host"
    /\ ev.code \in DOMAIN sessions
    /\ sessions[ev.code].status = "waiting"
    /\ sessions[ev.code].host = Null
    /\ Len(sessions[ev.code].clients) > 0
    /\ LiveHostsOf(ev.code) # {}
\* c is a member of session code: it is live, the session is in the registry,
\* c was acknowledged in it, and the session holds c in that role.
HostIn(c, code) ==
    /\ code \in DOMAIN sessions
    /\ RegisteredAs(c, "host", code)
    /\ sessions[code].host = c

ClientIn(c, code) ==
    /\ code \in DOMAIN sessions
    /\ RegisteredAs(c, "client", code)
    /\ \E i \in 1 .. Len(sessions[code].clients) : sessions[code].clients[i] = c

\* The last handler relayed a message of connection ev.conn.
Relayed == ev.op = "relay" /\ ev.conn \in DOMAIN connections

\* Every register message of c so far was acknowledged: the connection's
\* role and sessionCode are those of its acknowledged registration.
Acked(c) == c \in DOMAIN connections /\ connections[c] = registered[c]

\* C6: a relay message with targetId, sent by a connection registered in a
\* session, reaches exactly the connection with that id, once, when that
\* connection is live, and nobody (the sender included) otherwise.
C6_TargetedRelay ==
    (/\ Relayed
     /\ ev.target # Null
     /\ \E code \in Codes : HostIn(ev.conn, code) \/ ClientIn(ev.conn, code))
    => out = IF ev.target \in DOMAIN connections
             THEN <<Msg(ev.target, ev.type, ev.conn)>>
             ELSE <<>>

\* C7: a relay message without targetId sent by the registered host of a
\* session reaches every connection currently registered as client of that
\* session exactly once and no other connection.
C7_HostBroadcast ==
    \A code \in Codes :
        (Relayed /\ ev.target = Null /\ HostIn(ev.conn, code) /\ Acked(ev.conn))
        => /\ \A d \in ConnIds :
                  Copies(d) = IF d \in LiveClientsOf(code) /\ d # ev.conn
                              THEN 1 ELSE 0
           /\ \A i \in 1 .. Len(out) :
                  out[i] = Msg(out[i].to, ev.type, ev.conn)

\* C8: a relay message without targetId sent by a registered client of a
\* session reaches the session's currently registered host, once, if there
\* is one, and no other connection; with no host it reaches nobody.
C8_ClientBroadcast ==
    \A code \in Codes :
        (Relayed /\ ev.target = Null /\ ClientIn(ev.conn, code)
             /\ Acked(ev.conn))
        => IF LiveHostsOf(code) = {}
           THEN out = <<>>
           ELSE \E h \in LiveHostsOf(code) : out = <<Msg(h, ev.type, ev.conn)>>

\* C9: every relayed message, targeted or broadcast, is delivered only to a
\* connection that is currently registered in the session the sender is
\* registered in.
C9_SessionIsolation ==
    (Relayed /\ Acked(ev.conn)) =>
        \A i \in 1 .. Len(out) :
            /\ registered[ev.conn].sessionCode # NoCode
            /\ out[i].to \in DOMAIN connections
            /\ registered[out[i].to].sessionCode = registered[ev.conn].sessionCode

\* C10: a register naming a code that is not in the registry answers the
\* sender with an error and changes neither the connection's role and
\* sessionCode nor any session; the later disconnect of a connection that was
\* never acknowledged changes no session and notifies nobody.
C10_FailedRegisterLeavesUnregistered ==
    [][/\ (ev'.op = "register" /\ ev'.code \notin DOMAIN sessions)
          => /\ out' = <<Msg(ev'.conn, "error", Null)>>
             /\ connections'[ev'.conn] = connections[ev'.conn]
             /\ sessions' = sessions
       /\ (ev'.op = "disconnect" /\ registered[ev'.conn] = Unregistered)
          => /\ sessions' = sessions
             /\ out' = <<>>
      ]_vars

\* Number of sends of the last handler of the given type that went to d.
CopiesOf(d, type) ==
    Cardinality({i \in 1 .. Len(out) : out[i].to = d /\ out[i].type = type})

\* session.clients holds c.
InClients(s, c) == \E i \in 1 .. Len(s.clients) : s.clients[i] = c

\* C11: when the connection a session's host reference names closes, the
\* session ends with no host reference and status waiting, and every other
\* live connection of its client list gets exactly one host_offline while no
\* connection outside the list gets one.
C11_HostCloseClearsSession ==
    [][ev'.op = "disconnect" =>
          \A code \in DOMAIN sessions :
              sessions[code].host = ev'.conn =>
                  /\ code \in DOMAIN sessions'
                  /\ sessions'[code].host = Null
                  /\ sessions'[code].status = "waiting"
                  /\ \A d \in ConnIds \ {ev'.conn} :
                         CopiesOf(d, "host_offline")' =
                             IF d \in DOMAIN connections
                                    /\ InClients(sessions[code], d)
                             THEN 1 ELSE 0
      ]_vars

\* C12: a register with role host naming a session of the registry sets the
\* session's host reference to the sender and its status to active, sends
\* exactly one host_online to every live connection of the client list and
\* to nobody else, and last sends the sender its registered acknowledgment,
\* after which the sender is registered as host of that code.
C12_RegisterHost ==
    [][(ev'.op = "register" /\ ev'.role = "host"
            /\ ev'.code \in DOMAIN sessions) =>
          LET c == ev'.conn
              code == ev'.code
          IN  /\ sessions'[code].host = c
              /\ sessions'[code].status = "active"
              /\ \A d \in ConnIds :
                     CopiesOf(d, "host_online")' =
                         IF d \in DOMAIN connections
                                /\ InClients(sessions[code], d)
                         THEN 1 ELSE 0
              /\ \A i \in 1 .. Len(out') :
                     out'[i].type \in {"host_online", "registered"}
              /\ Len(out') > 0
              /\ out'[Len(out')] = Msg(c, "registered", Null)
              /\ \A d \in ConnIds :
                     CopiesOf(d, "registered")' = IF d = c THEN 1 ELSE 0
              /\ registered'[c] = [role |-> "host", sessionCode |-> code]
              /\ connections'[c] = registered'[c]
      ]_vars

\* C13: a register with role client naming a session of the registry puts
\* the sender into the client list, leaves host reference and status alone,
\* sends client_joined carrying the sender's id only to a connection that is
\* registered as the session's host, never to another client, and last sends
\* the sender its registered acknowledgment.
C13_RegisterClient ==
    [][(ev'.op = "register" /\ ev'.role = "client"
            /\ ev'.code \in DOMAIN sessions) =>
          LET c == ev'.conn
              code == ev'.code
          IN  /\ InClients(sessions'[code], c)
              /\ sessions'[code].host = sessions[code].host
              /\ sessions'[code].status = sessions[code].status
              /\ Len(out') > 0
              /\ out'[Len(out')] = Msg(c, "registered", Null)
              /\ \A i \in 1 .. Len(out') - 1 :
                     /\ out'[i].type = "client_joined"
                     /\ out'[i].ref = c
                     /\ out'[i].to # c =>
                            /\ out'[i].to \in DOMAIN connections'
                            /\ registered'[out'[i].to] =
                                   [role |-> "host", sessionCode |-> code]
              /\ \A d \in ConnIds : CopiesOf(d, "client_joined")' <= 1
      ]_vars

\* C14: every closing connection is gone from the connection table; when it
\* was registered as client of a session (and none of its registers failed)
\* it is gone from that session's client list, host reference and status are
\* as before, a connection registered as the session's host gets exactly
\* one client_left naming it and nobody else is told anything.
C14_ClientClose ==
    [][ev'.op = "disconnect" =>
          LET c == ev'.conn
          IN  /\ c \notin DOMAIN connections'
              /\ (/\ registered[c].role = "client"
                  /\ connections[c] = registered[c]
                  /\ registered[c].sessionCode \in DOMAIN sessions) =>
                     LET code == registered[c].sessionCode
                     IN  /\ code \in DOMAIN sessions'
                         /\ ~InClients(sessions'[code], c)
                         /\ sessions'[code].host = sessions[code].host
                         /\ sessions'[code].status = sessions[code].status
                         /\ \A d \in ConnIds \ {c} :
                                CopiesOf(d, "client_left")' =
                                    IF d \in LiveHostsOf(code) THEN 1 ELSE 0
                         /\ \A i \in 1 .. Len(out') :
                                out'[i].to # c =>
                                    out'[i] = Msg(out'[i].to, "client_left", c)
      ]_vars

\* C15: a message that does not parse is answered with exactly one error to
\* its sender and nothing else: sessions, connections and registrations are
\* as before, nobody else is sent anything and the sender stays connected.
C15_MalformedOnlyAnswersSender ==
    [][ev'.op = "malformed" =>
          /\ out' = <<Msg(ev'.conn, "error", Null)>>
          /\ sessions' = sessions
          /\ connections' = connections
          /\ registered' = registered
          /\ ev'.conn \in DOMAIN connections'
      ]_vars

\* C15 witness: the registered host of a session with a live client has sent
\* a malformed message and got the error.
C15_Witness ==
    /\ ev.op = "malformed"
    /\ out = <<Msg(ev.conn, "error", Null)>>
    /\ \E code \in DOMAIN sessions :
           /\ HostIn(ev.conn, code)
           /\ \E d \in LiveClientsOf(code) : d # ev.conn

Stale(id) ==
    /\ HostsHas(hosts, id)
    /\ now - HostsGet(hosts, id).lastHeartbeat >= HOST_TIMEOUT_MS

\* Number of entries of a listing that name host id.
Listed(listing, id) ==
    Cardinality({i \in 1 .. Len(listing) : listing[i].hostId = id})

\* C17: a host whose last heartbeat is 45 s old or older is in no result of
\* GET /api/hosts; it stays in the registry, where heartbeat, connect,
\* status and acknowledge find it, until the host sweep or a delete removes
\* it, and no read removes it.
C17_StaleHostHiddenNotRemoved ==
    [][\A id \in HostIds :
          Stale(id) =>
              /\ req'.op = "list" => Listed(res'.hosts, id) = 0
              /\ req'.op \in {"list", "status"} => hosts' = hosts
              /\ ~HostsHas(hosts', id) => req'.op \in {"sweep", "delete"}
              /\ (req'.op = "heartbeat" /\ req'.hostId = id)
                     => res'.status = 200
              /\ (req'.op = "acknowledge" /\ req'.hostId = id)
                     => res'.status = 200
              /\ (req'.op \in {"connect", "status"} /\ req'.hostId = id)
                     => \/ res'.status = 200
                        \/ res'.message # "Host not found"
      ]_vars

\* C17 witness: a host that shares a source and is exactly 45 s past its
\* last heartbeat is in the registry and the listing just given is empty.
C17_Witness ==
    /\ req.op = "list"
    /\ res.hosts = <<>>
    /\ \E id \in HostIds :
           /\ HostsHas(hosts, id)
           /\ now - HostsGet(hosts, id).lastHeartbeat = HOST_TIMEOUT_MS
           /\ \E k \in 1 .. Len(HostsGet(hosts, id).sources) :
                  HostsGet(hosts, id).sources[k].enabled

\* C18: GET /api/hosts changes nothing and returns each host of the
\* registry that is less than 45 s past its last heartbeat and has an
\* enabled source exactly once, and no other host; the source names of an
\* entry are exactly the names of the host's enabled sources.
C18_ListIsExact ==
    [][req'.op = "list" =>
          /\ hosts' = hosts
          /\ res'.status = 200
          /\ \A id \in HostIds :
                 Listed(res'.hosts, id) =
                     IF /\ HostsHas(hosts, id)
                        /\ now - HostsGet(hosts, id).lastHeartbeat
                               < HOST_TIMEOUT_MS
                        /\ \E k \in 1 .. Len(HostsGet(hosts, id).sources) :
                               HostsGet(hosts, id).sources[k].enabled
                     THEN 1 ELSE 0
          /\ \A i \in 1 .. Len(res'.hosts) :
                 LET h == HostsGet(hosts, res'.hosts[i].hostId)
                     names == res'.hosts[i].sources
                 IN  /\ Len(names) =
                            Cardinality({k \in 1 .. Len(h.sources) :
                                            h.sources[k].enabled})
                     /\ \A n \in SrcNames :
                            (\E k \in 1 .. Len(names) : names[k] = n)
                            <=> \E k \in 1 .. Len(h.sources) :
                                    /\ h.sources[k].name = n
                                    /\ h.sources[k].enabled
      ]_vars

\* C18 witness: of two registered hosts one shares nothing and is left out;
\* the other is listed with the one source it shares and without the source
\* it does not share.
C18_Witness ==
    /\ req.op = "list"
    /\ Len(hosts) = 2
    /\ Len(res.hosts) = 1
    /\ res.hosts[1].sources = <<"mic">>

\* The host stored under id has an enabled source of that name.
HasEnabled(id, sourceName) ==
    \E k \in 1 .. Len(HostsGet(hosts, id).sources) :
        /\ HostsGet(hosts, id).sources[k].name = sourceName
        /\ HostsGet(hosts, id).sources[k].enabled

\* C19: a connect naming a source the host does not have, or has disabled,
\* is refused as source not found and changes nothing of the host; a
\* connect for an unknown hostId is refused as host not found and creates
\* no entry.
C19_ConnectRefusals ==
    [][req'.op = "connect" =>
          /\ (HostsHas(hosts, req'.hostId)
                  /\ ~HasEnabled(req'.hostId, req'.sourceName))
             => /\ res' = [status |-> 404, message |-> "Source not found"]
                /\ hosts' = hosts
          /\ ~HostsHas(hosts, req'.hostId)
             => /\ res' = [status |-> 404, message |-> "Host not found"]
                /\ hosts' = hosts
      ]_vars

\* C19 witness: a connect for a source the host has, but with enabled
\* false, was refused as source not found.
C19_Witness ==
    /\ req.op = "connect"
    /\ res = [status |-> 404, message |-> "Source not found"]
    /\ HostsHas(hosts, req.hostId)
    /\ \E k \in 1 .. Len(HostsGet(hosts, req.hostId).sources) :
           /\ HostsGet(hosts, req.hostId).sources[k].name = req.sourceName
           /\ ~HostsGet(hosts, req.hostId).sources[k].enabled

QueueOf(hs, id) == HostsGet(hs, id).connectedClients
Unacked(cs) == {i \in 1 .. Len(cs) : ~cs[i].acknowledged}
\* The position in cs of its k-th request that is not acknowledged.
NthUnacked(cs, k) ==
    CHOOSE i \in Unacked(cs) : Cardinality({j \in Unacked(cs) : j <= i}) = k

\* C21: a heartbeat for a registered host returns exactly the requests of
\* its queue that are not acknowledged, in queue order, and leaves the queue
\* as it was; a heartbeat for an unknown hostId returns 404 and leaves the
\* registry as it was.
C21_HeartbeatReturnsPending ==
    [][req'.op = "heartbeat" =>
          IF HostsHas(hosts, req'.hostId)
          THEN LET cs == QueueOf(hosts, req'.hostId)
                   got == res'.pendingClients
               IN  /\ res'.status = 200
                   /\ Len(got) = Cardinality(Unacked(cs))
                   /\ \A k \in 1 .. Len(got) :
                          /\ got[k].clientId = cs[NthUnacked(cs, k)].clientId
                          /\ got[k].requestedSource
                                 = cs[NthUnacked(cs, k)].requestedSource
                   /\ HostsHas(hosts', req'.hostId)
                   /\ QueueOf(hosts', req'.hostId) = cs
          ELSE /\ res'.status = 404
               /\ hosts' = hosts
      ]_vars

\* A heartbeat answered with one pending request while an acknowledged one
\* is queued before it.
C21_Witness ==
    /\ req.op = "heartbeat"
    /\ res.status = 200
    /\ Len(res.pendingClients) = 1
    /\ LET cs == QueueOf(hosts, req.hostId)
       IN  /\ Len(cs) = 2
           /\ cs[1].acknowledged
           /\ ~cs[2].acknowledged

\* What a heartbeat leaves alone whatever it carries, and what it does with
\* the port and the sources of its body.
HeartbeatFrame(old, new) ==
    /\ new.lastHeartbeat = now
    /\ new.registeredAt = old.registeredAt
    /\ new.computerName = old.computerName
    /\ new.connectedClients = old.connectedClients
    /\ new.publicPort = IF req'.publicPort # NoPort THEN req'.publicPort
                        ELSE old.publicPort
    /\ new.sources = IF req'.sources # Absent THEN req'.sources[1]
                     ELSE old.sources

\* C22 as stated: a heartbeat overwrites only the fields the caller
\* provides; an omitted publicIP, publicPort or sources keeps its stored
\* value, lastHeartbeat is refreshed, registeredAt, computerName and the
\* queue are never changed.
C22_HeartbeatOnlyProvided ==
    [][(req'.op = "heartbeat" /\ HostsHas(hosts, req'.hostId)) =>
          LET old == HostsGet(hosts, req'.hostId)
              new == HostsGet(hosts', req'.hostId)
          IN  /\ HeartbeatFrame(old, new)
              /\ new.publicIP = IF req'.publicIP # NoVal THEN req'.publicIP
                                ELSE old.publicIP
      ]_vars

\* C22 amended: as above, except that a heartbeat without publicIP stores
\* the address the request is seen to come from, and keeps the stored
\* address only when none is detected.
C22_HeartbeatAutoDetectsIP ==
    [][(req'.op = "heartbeat" /\ HostsHas(hosts, req'.hostId)) =>
          LET old == HostsGet(hosts, req'.hostId)
              new == HostsGet(hosts', req'.hostId)
          IN  /\ HeartbeatFrame(old, new)
              /\ new.publicIP = IF req'.publicIP # NoVal THEN req'.publicIP
                                ELSE IF req'.remote # NoVal THEN req'.remote
                                ELSE old.publicIP
      ]_vars

\* A heartbeat without publicIP and publicPort, seen to come from another
\* address than the stored one, later than the registration, for a host with
\* a queued request.
C22_Witness ==
    /\ req.op = "heartbeat"
    /\ res.status = 200
    /\ req.publicIP = NoVal
    /\ req.publicPort = NoPort
    /\ req.sources = Absent
    /\ LET h == HostsGet(hosts, req.hostId)
       IN  /\ h.publicIP = req.remote
           /\ h.publicPort = 6000
           /\ h.lastHeartbeat > h.registeredAt
           /\ Len(h.connectedClients) > 0

\* C23: a successful registerHost sets lastHeartbeat to the time of the call;
\* when the hostId is in the registry it keeps the registeredAt stored there,
\* and when it is not (never registered, deleted or swept) it records the
\* time of the call as registeredAt.
C23_RegisteredAtKept ==
    [][(req'.op = "register" /\ res'.status = 200) =>
          LET id == res'.hostId
              new == HostsGet(hosts', id)
          IN  /\ HostsHas(hosts', id)
              /\ new.lastHeartbeat = now
              /\ new.registeredAt = IF HostsHas(hosts, id)
                                    THEN HostsGet(hosts, id).registeredAt
                                    ELSE now
      ]_vars

\* A registration that kept an earlier registeredAt.
C23_Witness ==
    /\ req.op = "register"
    /\ res.status = 200
    /\ HostsGet(hosts, res.hostId).registeredAt < now
    /\ HostsGet(hosts, res.hostId).lastHeartbeat = now

\* C24: registerHost for a hostId that is in the registry keeps the queue of
\* connection requests of that host, acknowledged flags included.
C24_ReRegisterKeepsQueue ==
    [][(/\ req'.op = "register"
        /\ res'.status = 200
        /\ HostsHas(hosts, res'.hostId)) =>
          QueueOf(hosts', res'.hostId) = QueueOf(hosts, res'.hostId)
      ]_vars

\* C25: every successful requestConnect appends exactly one request, not
\* acknowledged, to the end of the queue of the host and leaves the requests
\* queued before as they were, whether or not the same client already has a
\* request for that source in the queue.
C25_ConnectAppendsOne ==
    [][(req'.op = "connect" /\ res'.status = 200) =>
          LET old == QueueOf(hosts, req'.hostId)
              new == QueueOf(hosts', req'.hostId)
          IN  /\ Len(new) = Len(old) + 1
              /\ SubSeq(new, 1, Len(old)) = old
              /\ new[Len(new)].clientId = res'.clientId
              /\ new[Len(new)].requestedSource = req'.sourceName
              /\ ~new[Len(new)].acknowledged
      ]_vars

\* A connect by a client that already had a request for the same source
\* queued: both are stored.
C25_Witness ==
    /\ req.op = "connect"
    /\ res.status = 200
    /\ LET cs == QueueOf(hosts, req.hostId)
       IN  /\ Len(cs) = 2
           /\ cs[1].clientId = cs[2].clientId
           /\ cs[1].requestedSource = cs[2].requestedSource

\* The connections a session holds as host or client that are open.
MembersOf(s) ==
    {d \in DOMAIN connections : d = s.host \/ InClients(s, d)}

\* C26: a stun_request is answered to the address and port it came from with
\* a stun_response carrying that address and port; when the named session
\* exists every open member of it other than the requester gets exactly one
\* peer_udp_info with the peerId of the request and the observed address and
\* port, and the requester's own connection gets none; when it does not
\* exist nothing is sent; no state changes.
C26_StunDiscovery ==
    [][ev'.op = "stun" =>
          /\ res'.type = "stun_response"
          /\ res'.toAddress = req'.publicIP /\ res'.toPort = req'.publicPort
          /\ res'.publicIP = req'.publicIP /\ res'.publicPort = req'.publicPort
          /\ UNCHANGED <<sessions, connections, hosts>>
          /\ \A i \in 1 .. Len(out') :
                 out'[i] = UdpInfo(out'[i].to, ev'.target, [address |-> req'.publicIP,
                                                          port |-> req'.publicPort])
          /\ IF ev'.code \in DOMAIN sessions
             THEN \A d \in ConnIds :
                      Cardinality({i \in 1 .. Len(out') : out'[i].to = d})
                          = IF d \in MembersOf(sessions[ev'.code]) \ {ev'.conn}
                            THEN 1 ELSE 0
             ELSE out' = <<>>
      ]_vars

\* C27: every message the relay delivers carries as fromId the id of the
\* connection that sent it, whatever fromId the payload states, and delivers
\* the type, the targetId and the rest of the payload as they were sent.
C27_FromIdIsSender ==
    [][ev'.op = "payload" =>
          \A i \in 1 .. Len(out') :
              /\ out'[i].data.fromId = ev'.conn
              /\ out'[i].data.type = ev'.data.type
              /\ out'[i].data.targetId = ev'.data.targetId
              /\ out'[i].data.body = ev'.data.body
      ]_vars

\* A delivered message whose payload named another connection as its origin.
C27_Witness ==
    /\ ev.op = "payload"
    /\ ev.data.fromId \in DOMAIN connections \ {ev.conn}
    /\ Len(out) > 0
    /\ out[1].to # ev.conn

\* The ids of connections that were opened and have closed.
ClosedConns == (1 .. nextConn) \ DOMAIN connections

\* C28: the id of a connection that has closed is the host reference of no
\* session and in the client list of no session.
C28_ClosedConnectionGone ==
    \A code \in DOMAIN sessions :
        \A c \in ClosedConns :
            /\ sessions[code].host # c
            /\ ~InClients(sessions[code], c)

\* C29: when an acknowledge for (hostId, clientId) has just been handled for
\* a host whose queue holds requests of clientId, a heartbeat of that host
\* handled next returns no pending request of clientId, and a status poll
\* for the pair handled next reports acknowledged, however many requests
\* the client had queued.
C29_AcknowledgedStaysQuiet ==
    [][(/\ req.op = "acknowledge"
        /\ res.status = 200
        /\ ClientIndex(QueueOf(hosts, req.hostId), req.clientId) # 0) =>
          /\ (req'.op = "heartbeat" /\ req'.hostId = req.hostId) =>
                 \A i \in 1 .. Len(res'.pendingClients) :
                     res'.pendingClients[i].clientId # req.clientId
          /\ (/\ req'.op = "status"
              /\ req'.hostId = req.hostId
              /\ req'.clientId = req.clientId) =>
                 res'.status = 200 /\ res'.acknowledged
      ]_vars

\* C30: a heartbeat for a host that is 45 s or more past its last heartbeat
\* and still in the registry succeeds and refreshes it: a listing handled
\* next shows the host if it shares a source, and no sweep removes a host
\* whose last heartbeat is at most 45 s old.  A heartbeat for a hostId that
\* is not in the registry answers 404 and leaves the registry as it was;
\* only a registration puts a hostId into the registry.
C30_HeartbeatRevives ==
    [][\A id \in HostIds :
          /\ (req'.op = "heartbeat" /\ req'.hostId = id /\ Stale(id)) =>
                 /\ res'.status = 200
                 /\ HostsHas(hosts', id)
                 /\ HostsGet(hosts', id).lastHeartbeat = now
          /\ (/\ req.op = "heartbeat" /\ req.hostId = id /\ res.status = 200
              /\ req'.op = "list"
              /\ \E sourceName \in SrcNames : HasEnabled(id, sourceName)) =>
                 Listed(res'.hosts, id) = 1
          /\ (/\ req'.op = "sweep"
              /\ HostsHas(hosts, id)
              /\ now - HostsGet(hosts, id).lastHeartbeat <= HOST_TIMEOUT_MS) =>
                 /\ HostsHas(hosts', id)
                 /\ HostsGet(hosts', id) = HostsGet(hosts, id)
          /\ (req'.op = "heartbeat" /\ req'.hostId = id
              /\ ~HostsHas(hosts, id)) =>
                 /\ res'.status = 404
                 /\ hosts' = hosts
          /\ (~HostsHas(hosts, id) /\ HostsHas(hosts', id)) =>
                 req'.op = "register"
      ]_vars

\* A host refreshed 45 s or more after it registered is in the registry
\* after a sweep run at a later time.
C30_Witness ==
    /\ req.op = "sweep"
    /\ \E id \in HostIds :
           /\ HostsHas(hosts, id)
           /\ HostsGet(hosts, id).lastHeartbeat
                  - HostsGet(hosts, id).registeredAt >= HOST_TIMEOUT_MS
           /\ now > HostsGet(hosts, id).lastHeartbeat

\* C31: with the host sweep firing every 15 s, a host is out of the registry
\* no later than 45 s plus one sweep period after its last registration or
\* heartbeat, so every stored host was refreshed less than 60 s ago; a
\* heartbeat, a connect and a status poll for a hostId that is not in the
\* registry answer 404 'Host not found' and do not put it back.
C31_StaleHostsRemoved ==
    [][/\ \A i \in 1 .. Len(hosts') :
              now' - hosts'[i].lastHeartbeat
                  < HOST_TIMEOUT_MS + HOST_SWEEP_MS
       /\ \A id \in HostIds :
              (/\ ~HostsHas(hosts, id)
               /\ req'.op \in {"heartbeat", "connect", "status"}
               /\ req'.hostId = id) =>
                  /\ res'.status = 404
                  /\ res'.message = "Host not found"
                  /\ ~HostsHas(hosts', id)
      ]_vars

\* The timer has just removed a host whose last refresh is exactly 45 s
\* plus one sweep period old: the sweep before came at 45 s and kept it.
C31_Witness ==
    /\ req.op = "timer"
    /\ \E i \in 1 .. Len(res.removed) :
           /\ now - res.removed[i].lastHeartbeat
                  = HOST_TIMEOUT_MS + HOST_SWEEP_MS
           /\ ~HostsHas(hosts, res.removed[i].hostId)

====
